---- MODULE Spec2Model ----
(***************************************************************************)
(* The counter pallet of pallets/custom-pallet/src/lib.rs: two storage     *)
(* items (CounterValue, UserInteractions), three dispatchable calls        *)
(* (set_counter_value, increment, decrement) and the events they deposit.  *)
(*                                                                         *)
(* A dispatchable is modelled as an operator from the storage before the   *)
(* call to the raw outcome of its body (the writes it has made when it     *)
(* returns, and its DispatchResult).  The body writes eagerly, exactly as  *)
(* the source does.  The host's storage layer then commits the writes of   *)
(* a call that returned Ok and discards the writes of a call that returned *)
(* Err.                                                                    *)
(***************************************************************************)
EXTENDS Integers, Sequences, FiniteSets

(***************************************************************************)
(* Bounds.  u32 is scaled down: U32Max stands for u32::MAX, so that the    *)
(* overflow cases of checked_add are reached.  CounterMaxValue is the      *)
(* runtime's configuration constant; it is chosen below u32::MAX so that   *)
(* CounterValueExceedsMax and CounterOverflow are both reachable.          *)
(* MaxEvents caps the number of successful calls of a run; it is at least  *)
(* U32Max, so that one account can reach UserInteractionOverflow.          *)
(***************************************************************************)
U32Max == 2

CounterMaxValue == 1

MaxEvents == 2

U32 == 0..U32Max

AccountId == {"alice", "bob"}

VARIABLES
    CounterValue,       \* StorageValue<_, u32>: None or Some(v)
    UserInteractions,   \* StorageMap<AccountId, u32>: account -> None or Some(n)
    events,             \* the events deposited so far, oldest first
    call,               \* the call dispatched last: [op, origin, arg]
    result              \* its DispatchResult: "Ok" or the error's name

vars == <<CounterValue, UserInteractions, events, call, result>>

----------------------------------------------------------------------------
(* Option<T> *)
None == <<>>

Some(x) == <<x>>

unwrap_or(o, d) == IF o = None THEN d ELSE o[1]

(* RawOrigin *)
Root == [tag |-> "Root", who |-> ""]

Signed(a) == [tag |-> "Signed", who |-> a]

NoOrigin == [tag |-> "None", who |-> ""]

Origins == {Root, NoOrigin} \cup {Signed(a) : a \in AccountId}

(* Result<T, E> *)
Ok(v) == [ok |-> TRUE, val |-> v, err |-> ""]

Err(e) == [ok |-> FALSE, val |-> "", err |-> e]

ensure_root(origin) ==
    IF origin.tag = "Root" THEN Ok("") ELSE Err("BadOrigin")

ensure_signed(origin) ==
    IF origin.tag = "Signed" THEN Ok(origin.who) ELSE Err("BadOrigin")

(* u32::checked_add with wrapping instead of overflow detection *)
checked_add_wrapping(a, b) == Some((a + b) % (U32Max + 1))

(* u32::checked_add: None when the sum leaves the u32 range *)
checked_add(a, b) == IF a + b <= U32Max THEN Some(a + b) ELSE None

(* u32::wrapping_sub in place of checked_sub *)
checked_sub_wrapping(a, b) == Some((a - b) % (U32Max + 1))

(* u32::saturating_sub in place of checked_sub *)
checked_sub_saturating(a, b) == Some(IF a >= b THEN a - b ELSE 0)

(* checked_sub that also rejects a difference of zero *)
checked_sub_strict(a, b) == IF a > b THEN Some(a - b) ELSE None

(* u32::checked_sub: None when the difference would be negative *)
checked_sub(a, b) == IF a >= b THEN Some(a - b) ELSE None

(* Event<T> *)
CounterValueSet(v) ==
    [kind |-> "CounterValueSet", counter_value |-> v, who |-> None,
     amount |-> None]

CounterIncremented(v, w, a) ==
    [kind |-> "CounterIncremented", counter_value |-> v, who |-> Some(w),
     amount |-> Some(a)]

CounterDecremented(v, w, a) ==
    [kind |-> "CounterDecremented", counter_value |-> v, who |-> Some(w),
     amount |-> Some(a)]

(* The storage a call body works on, and the outcome of a body. *)
Storage == [CounterValue |-> CounterValue,
            UserInteractions |-> UserInteractions,
            events |-> events]

Ret(s, r) == [storage |-> s, result |-> r]

deposit_event(s, e) == [s EXCEPT !.events = Append(@, e)]

(* The closure with unwrap_or(1): an account's first call counts twice *)
bump_interactions_from_one(interactions) ==
    LET new_interactions == checked_add(unwrap_or(interactions, 1), 1)
    IN  IF new_interactions = None
        THEN Err("UserInteractionOverflow")
        ELSE Ok(new_interactions)

(* The closure passed to UserInteractions::try_mutate, on the entry's value *)
bump_interactions(interactions) ==
    LET new_interactions == checked_add(unwrap_or(interactions, 0), 1)
    IN  IF new_interactions = None
        THEN Err("UserInteractionOverflow")
        ELSE Ok(new_interactions)

(* try_mutate on one count shared by all accounts (the key is ignored) *)
try_mutate_shared(s, who) ==
    LET r == bump_interactions(s.UserInteractions[who])
    IN  IF r.ok
        THEN Ret([s EXCEPT !.UserInteractions = [a \in AccountId |-> r.val]],
                 "Ok")
        ELSE Ret(s, r.err)

(* StorageMap::try_mutate: the entry is written only when the closure     *)
(* returns Ok                                                              *)
try_mutate(s, who) ==
    LET r == bump_interactions(s.UserInteractions[who])
    IN  IF r.ok
        THEN Ret([s EXCEPT !.UserInteractions[who] = r.val], "Ok")
        ELSE Ret(s, r.err)

----------------------------------------------------------------------------
(* The bodies of the three dispatchables. *)

(* set_counter_value with the bound checked before the origin *)
set_counter_value_bound_first(s, origin, new_value) ==
    IF ~(new_value <= CounterMaxValue) THEN Ret(s, "CounterValueExceedsMax")
    ELSE IF ~ensure_root(origin).ok THEN Ret(s, "BadOrigin")
    ELSE LET s1 == [s EXCEPT !.CounterValue = Some(new_value)]
         IN  Ret(deposit_event(s1, CounterValueSet(new_value)), "Ok")

(* set_counter_value with a strict bound: new_value < CounterMaxValue *)
set_counter_value_strict(s, origin, new_value) ==
    IF ~ensure_root(origin).ok THEN Ret(s, "BadOrigin")
    ELSE IF ~(new_value < CounterMaxValue)
    THEN Ret(s, "CounterValueExceedsMax")
    ELSE LET s1 == [s EXCEPT !.CounterValue = Some(new_value)]
         IN  Ret(deposit_event(s1, CounterValueSet(new_value)), "Ok")

(* set_counter_value that also clears the interaction ledger *)
set_counter_value_reset(s, origin, new_value) ==
    IF ~ensure_root(origin).ok THEN Ret(s, "BadOrigin")
    ELSE IF ~(new_value <= CounterMaxValue)
    THEN Ret(s, "CounterValueExceedsMax")
    ELSE LET s1 == [s EXCEPT !.CounterValue = Some(new_value),
                             !.UserInteractions = [a \in AccountId |-> None]]
         IN  Ret(deposit_event(s1, CounterValueSet(new_value)), "Ok")

set_counter_value(s, origin, new_value) ==
    IF ~ensure_root(origin).ok THEN Ret(s, "BadOrigin")
    ELSE IF ~(new_value <= CounterMaxValue)
    THEN Ret(s, "CounterValueExceedsMax")
    ELSE LET s1 == [s EXCEPT !.CounterValue = Some(new_value)]
         IN  Ret(deposit_event(s1, CounterValueSet(new_value)), "Ok")

(* increment with a strict bound: new_value < CounterMaxValue *)
increment_strict(s, origin, amount_to_increment) ==
    LET o == ensure_signed(origin)
        who == o.val
        current_value == unwrap_or(s.CounterValue, 0)
        sum == checked_add(current_value, amount_to_increment)
        new_value == sum[1]
        s1 == [s EXCEPT !.CounterValue = Some(new_value)]
        m == try_mutate(s1, who)
    IN  IF ~o.ok THEN Ret(s, o.err)
        ELSE IF sum = None THEN Ret(s, "CounterOverflow")
        ELSE IF ~(new_value < CounterMaxValue)
        THEN Ret(s, "CounterValueExceedsMax")
        ELSE IF m.result # "Ok" THEN m
        ELSE Ret(deposit_event(m.storage,
                     CounterIncremented(new_value, who, amount_to_increment)),
                 "Ok")

(* increment whose event carries the value read, not the value written *)
increment_event_old_value(s, origin, amount_to_increment) ==
    LET o == ensure_signed(origin)
        who == o.val
        current_value == unwrap_or(s.CounterValue, 0)
        sum == checked_add(current_value, amount_to_increment)
        new_value == sum[1]
        s1 == [s EXCEPT !.CounterValue = Some(new_value)]
        m == try_mutate(s1, who)
    IN  IF ~o.ok THEN Ret(s, o.err)
        ELSE IF sum = None THEN Ret(s, "CounterOverflow")
        ELSE IF ~(new_value <= CounterMaxValue)
        THEN Ret(s, "CounterValueExceedsMax")
        ELSE IF m.result # "Ok" THEN m
        ELSE Ret(deposit_event(m.storage,
                     CounterIncremented(current_value, who,
                                        amount_to_increment)),
                 "Ok")

increment(s, origin, amount_to_increment) ==
    LET o == ensure_signed(origin)
        who == o.val
        current_value == unwrap_or(s.CounterValue, 0)
        sum == checked_add(current_value, amount_to_increment)
        new_value == sum[1]
        s1 == [s EXCEPT !.CounterValue = Some(new_value)]
        m == try_mutate(s1, who)
    IN  IF ~o.ok THEN Ret(s, o.err)
        ELSE IF sum = None THEN Ret(s, "CounterOverflow")
        ELSE IF ~(new_value <= CounterMaxValue)
        THEN Ret(s, "CounterValueExceedsMax")
        ELSE IF m.result # "Ok" THEN m
        ELSE Ret(deposit_event(m.storage,
                     CounterIncremented(new_value, who, amount_to_increment)),
                 "Ok")

(* decrement with the operands of checked_sub swapped *)
decrement_swapped(s, origin, amount_to_decrement) ==
    LET o == ensure_signed(origin)
        who == o.val
        current_value == unwrap_or(s.CounterValue, 0)
        diff == checked_sub(amount_to_decrement, current_value)
        new_value == diff[1]
        s1 == [s EXCEPT !.CounterValue = Some(new_value)]
        m == try_mutate(s1, who)
    IN  IF ~o.ok THEN Ret(s, o.err)
        ELSE IF diff = None THEN Ret(s, "CounterValueBelowZero")
        ELSE IF m.result # "Ok" THEN m
        ELSE Ret(deposit_event(m.storage,
                     CounterDecremented(new_value, who, amount_to_decrement)),
                 "Ok")

(* decrement that removes CounterValue when it reaches zero *)
decrement_kill_on_zero(s, origin, amount_to_decrement) ==
    LET o == ensure_signed(origin)
        who == o.val
        current_value == unwrap_or(s.CounterValue, 0)
        diff == checked_sub(current_value, amount_to_decrement)
        new_value == diff[1]
        s1 == [s EXCEPT !.CounterValue =
                   IF new_value = 0 THEN None ELSE Some(new_value)]
        m == try_mutate(s1, who)
    IN  IF ~o.ok THEN Ret(s, o.err)
        ELSE IF diff = None THEN Ret(s, "CounterValueBelowZero")
        ELSE IF m.result # "Ok" THEN m
        ELSE Ret(deposit_event(m.storage,
                     CounterDecremented(new_value, who, amount_to_decrement)),
                 "Ok")

decrement(s, origin, amount_to_decrement) ==
    LET o == ensure_signed(origin)
        who == o.val
        current_value == unwrap_or(s.CounterValue, 0)
        diff == checked_sub(current_value, amount_to_decrement)
        new_value == diff[1]
        s1 == [s EXCEPT !.CounterValue = Some(new_value)]
        m == try_mutate(s1, who)
    IN  IF ~o.ok THEN Ret(s, o.err)
        ELSE IF diff = None THEN Ret(s, "CounterValueBelowZero")
        ELSE IF m.result # "Ok" THEN m
        ELSE Ret(deposit_event(m.storage,
                     CounterDecremented(new_value, who, amount_to_decrement)),
                 "Ok")

----------------------------------------------------------------------------
(* The dispatch layer. *)

(* A dispatch layer that keeps the writes of a failed call *)
with_storage_layer_no_rollback(s, out) == out.storage

(* The host's transactional storage layer, in which every dispatchable of *)
(* the #[pallet::call] block runs: the body's writes are committed when   *)
(* it returns Ok and discarded when it returns Err.  The layer is the     *)
(* host's and not part of lib.rs; it is modelled from section 5 of the    *)
(* specification (the atomicity contract).                                 *)
with_storage_layer(s, out) == IF out.result = "Ok" THEN out.storage ELSE s

Dispatch(op, origin, arg, out) ==
    /\ out.result = "Ok" => Len(events) < MaxEvents
    /\ LET s == with_storage_layer(Storage, out)
       IN  /\ CounterValue' = s.CounterValue
           /\ UserInteractions' = s.UserInteractions
           /\ events' = s.events
    /\ call' = [op |-> op, origin |-> origin, arg |-> arg]
    /\ result' = out.result

SetCounterValue(origin, new_value) ==
    Dispatch("set_counter_value", origin, new_value,
             set_counter_value(Storage, origin, new_value))

Increment(origin, amount) ==
    Dispatch("increment", origin, amount, increment(Storage, origin, amount))

Decrement(origin, amount) ==
    Dispatch("decrement", origin, amount, decrement(Storage, origin, amount))

NoCall == [op |-> "none", origin |-> NoOrigin, arg |-> 0]

Init ==
    /\ CounterValue = None
    /\ UserInteractions = [a \in AccountId |-> None]
    /\ events = <<>>
    /\ call = NoCall
    /\ result = "none"

Next ==
    \/ \E origin \in Origins, v \in U32 : SetCounterValue(origin, v)
    \/ \E origin \in Origins, a \in U32 : Increment(origin, a)
    \/ \E origin \in Origins, a \in U32 : Decrement(origin, a)

Spec == Init /\ [][Next]_vars

TypeOK ==
    /\ CounterValue \in {None} \cup {Some(v) : v \in U32}
    /\ UserInteractions \in [AccountId -> {None} \cup {Some(v) : v \in U32}]
    /\ Len(events) <= MaxEvents
----------------------------------------------------------------------------
(* What the properties below read of a step: the call it dispatched       *)
(* (call', result') and the storage before it (the unprimed variables).    *)
current == unwrap_or(CounterValue, 0)

caller == call'.origin.who

interactions_of(a) == unwrap_or(UserInteractions[a], 0)

IsSigned == call'.origin.tag = "Signed"

StorageUnchanged ==
    /\ CounterValue' = CounterValue
    /\ UserInteractions' = UserInteractions

LastEvent == events[Len(events)]

(* C1: in every reachable state CounterValue, when present, lies in       *)
(* 0..CounterMaxValue.                                                     *)
C1_CounterValueInRange ==
    CounterValue # None => CounterValue[1] \in 0..CounterMaxValue

C1_Witness ==
    /\ call.op = "increment" /\ result = "Ok" /\ call.arg > 0
    /\ CounterValue = Some(CounterMaxValue)

(* C2: a call that returns an error leaves CounterValue and every         *)
(* UserInteractions entry as they were before the call; this includes an  *)
(* increment or decrement that fails with UserInteractionOverflow after   *)
(* its body has already written CounterValue.                              *)
C2_FailedCallChangesNothing ==
    [][result' # "Ok" => StorageUnchanged]_vars

C2_Witness ==
    /\ call.op = "increment" /\ result = "UserInteractionOverflow"
    /\ increment(Storage, call.origin, call.arg).result
           = "UserInteractionOverflow"
    /\ increment(Storage, call.origin, call.arg).storage.CounterValue
           # CounterValue

(* C3: set_counter_value from an origin that is not Root, and increment   *)
(* or decrement from an origin that is not Signed, fail with BadOrigin    *)
(* whatever the argument and the state, and change no storage.            *)
C3_WrongOriginIsBadOrigin ==
    [][(\/ call'.op = "set_counter_value" /\ call'.origin.tag # "Root"
        \/ call'.op \in {"increment", "decrement"} /\ ~IsSigned)
       => result' = "BadOrigin" /\ StorageUnchanged]_vars

C3_Witness ==
    /\ call.op = "set_counter_value" /\ call.origin.tag = "Signed"
    /\ call.arg > CounterMaxValue
    /\ result = "BadOrigin"

(* C4: set_counter_value(Root, v) succeeds and stores v when              *)
(* v <= CounterMaxValue, whatever was stored before; otherwise it fails   *)
(* with CounterValueExceedsMax and the stored value is unchanged.         *)
C4_SetValueByRoot ==
    [][call'.op = "set_counter_value" /\ call'.origin = Root
       => IF call'.arg <= CounterMaxValue
          THEN result' = "Ok" /\ CounterValue' = Some(call'.arg)
          ELSE result' = "CounterValueExceedsMax"
               /\ CounterValue' = CounterValue]_vars

C4_Witness ==
    /\ call.op = "set_counter_value" /\ call.origin = Root /\ result = "Ok"
    /\ call.arg = CounterMaxValue /\ CounterValue = Some(call.arg)
    /\ Len(events) >= 2
    /\ events[Len(events) - 1].counter_value # call.arg

(* C5: increment(Signed(A), a) with current + a <= CounterMaxValue and    *)
(* A's interaction count below u32::MAX succeeds, stores current + a and  *)
(* raises A's interaction count by exactly 1.                              *)
C5_IncrementSucceeds ==
    [][/\ call'.op = "increment" /\ IsSigned
       /\ current + call'.arg <= CounterMaxValue
       /\ interactions_of(caller) < U32Max
       => /\ result' = "Ok"
          /\ CounterValue' = Some(current + call'.arg)
          /\ UserInteractions'[caller] = Some(interactions_of(caller) + 1)]_vars

C5_Witness ==
    /\ call.op = "increment" /\ result = "Ok" /\ call.arg > 0
    /\ CounterValue = Some(CounterMaxValue)
    /\ UserInteractions[call.origin.who] = Some(U32Max)

(* C6: decrement(Signed(A), a) with a > current fails with                *)
(* CounterValueBelowZero and changes neither CounterValue nor A's         *)
(* interaction entry (an absent entry stays absent).                       *)
C6_DecrementBelowZero ==
    [][call'.op = "decrement" /\ IsSigned /\ call'.arg > current
       => /\ result' = "CounterValueBelowZero"
          /\ CounterValue' = CounterValue
          /\ UserInteractions'[caller] = UserInteractions[caller]]_vars

C6_Witness ==
    /\ call.op = "decrement" /\ result = "CounterValueBelowZero"
    /\ CounterValue # None /\ call.arg > CounterValue[1]
    /\ UserInteractions[call.origin.who] = None

(* C7: decrement(Signed(A), a) with a <= current and A's interaction      *)
(* count below u32::MAX succeeds, stores current - a and raises A's       *)
(* interaction count by exactly 1; decrement never fails with             *)
(* CounterValueExceedsMax or CounterOverflow.                              *)
C7_DecrementSucceeds ==
    [][call'.op = "decrement"
       => /\ result' \notin {"CounterValueExceedsMax", "CounterOverflow"}
          /\ (/\ IsSigned
              /\ call'.arg <= current
              /\ interactions_of(caller) < U32Max)
             => /\ result' = "Ok"
                /\ CounterValue' = Some(current - call'.arg)
                /\ UserInteractions'[caller]
                       = Some(interactions_of(caller) + 1)]_vars

C7_Witness ==
    /\ call.op = "decrement" /\ result = "Ok" /\ call.arg > 0
    /\ CounterValue = Some(0)
    /\ UserInteractions[call.origin.who] = Some(1)

(* C8: a signed increment fails with CounterOverflow exactly when         *)
(* current + amount leaves the u32 range, and otherwise with              *)
(* CounterValueExceedsMax exactly when current + amount exceeds           *)
(* CounterMaxValue; the sum is never wrapped, and UserInteractionOverflow *)
(* is returned only when both counter checks pass.                         *)
C8_IncrementChecks ==
    [][call'.op = "increment" /\ IsSigned
       => LET sum == current + call'.arg
          IN  /\ result' = "CounterOverflow" <=> sum > U32Max
              /\ result' = "CounterValueExceedsMax"
                     <=> (sum <= U32Max /\ sum > CounterMaxValue)
              /\ result' = "UserInteractionOverflow"
                     => (sum <= CounterMaxValue
                         /\ interactions_of(caller) = U32Max)
              /\ result' = "Ok" => CounterValue' = Some(sum)]_vars

C8_Witness ==
    /\ call.op = "increment" /\ result = "CounterOverflow"
    /\ CounterValue # None
    /\ CounterValue[1] + call.arg > U32Max
    /\ UserInteractions[call.origin.who] = Some(U32Max)

(* C9: a successful call appends exactly one event, carrying the value it *)
(* stored, the caller and the amount; a failed call appends none.          *)
C9_OneEventPerSuccess ==
    [][IF result' = "Ok"
       THEN /\ CounterValue' # None
            /\ events' = Append(events,
                 CASE call'.op = "set_counter_value"
                        -> CounterValueSet(call'.arg)
                   [] call'.op = "increment"
                        -> CounterIncremented(CounterValue'[1], caller,
                                              call'.arg)
                   [] call'.op = "decrement"
                        -> CounterDecremented(CounterValue'[1], caller,
                                              call'.arg))
            /\ call'.op = "set_counter_value"
                   => CounterValue' = Some(call'.arg)
       ELSE events' = events]_vars

C9_Witness ==
    /\ call.op = "increment" /\ result = "Ok" /\ call.arg > 0
    /\ Len(events) >= 2
    /\ LastEvent = CounterIncremented(CounterValue[1], call.origin.who,
                                      call.arg)
    /\ events[Len(events) - 1].kind = "CounterDecremented"

(* C10: set_counter_value, successful or not, leaves every                *)
(* UserInteractions entry unchanged.                                       *)
C10_SetValueKeepsInteractions ==
    [][call'.op = "set_counter_value"
       => UserInteractions' = UserInteractions]_vars

C10_Witness ==
    /\ call.op = "set_counter_value" /\ result = "Ok"
    /\ UserInteractions["alice"] # None
    /\ UserInteractions["bob"] = None
(* The outcome of the body of the call dispatched last, run again on the  *)
(* storage as it is now.                                                   *)
Redispatched ==
    CASE call.op = "set_counter_value"
           -> set_counter_value(Storage, call.origin, call.arg)
      [] call.op = "increment"
           -> increment(Storage, call.origin, call.arg)
      [] call.op = "decrement"
           -> decrement(Storage, call.origin, call.arg)

(* C11: when a call has failed, the same call issued again at once fails  *)
(* with the same error and leaves the same, unchanged state.              *)
C11_FailureIsIdempotent ==
    result \notin {"Ok", "none"}
    => /\ Redispatched.result = result
       /\ with_storage_layer(Storage, Redispatched) = Storage

C11_Witness ==
    /\ call.op = "decrement" /\ result = "UserInteractionOverflow"
    /\ Redispatched.result = result
    /\ Redispatched.storage.CounterValue # CounterValue
    /\ with_storage_layer(Storage, Redispatched) = Storage
(* C12: across every step a UserInteractions entry is never removed and   *)
(* never decreases, and an absent entry becomes present only by a         *)
(* successful increment or decrement of that very account.                *)
C12_InteractionsMonotone ==
    [][\A a \in AccountId :
         /\ UserInteractions[a] # None
            => /\ UserInteractions'[a] # None
               /\ UserInteractions'[a][1] >= UserInteractions[a][1]
         /\ (UserInteractions[a] = None /\ UserInteractions'[a] # None)
            => /\ call'.op \in {"increment", "decrement"}
               /\ call'.origin = Signed(a)
               /\ result' = "Ok"]_vars

C12_Witness ==
    /\ UserInteractions["alice"] = Some(1)
    /\ UserInteractions["bob"] = None
    /\ call.op = "set_counter_value" /\ result = "Ok"
    /\ Len(events) = 2 /\ events[1].who = Some("alice")
(* C13: CounterValue is absent in the initial state; while it is absent   *)
(* increment and decrement read it as 0; once written it stays present    *)
(* in every later state.                                                   *)
C13_CounterValueAbsentThenPresent ==
    /\ CounterValue = None
    /\ [][CounterValue # None => CounterValue' # None]_vars
    /\ [][(CounterValue = None /\ IsSigned /\ call'.op = "increment")
          => IF call'.arg <= CounterMaxValue
             THEN result' = "Ok" /\ CounterValue' = Some(call'.arg)
             ELSE result' = "CounterValueExceedsMax"
                  /\ CounterValue' = None]_vars
    /\ [][(CounterValue = None /\ IsSigned /\ call'.op = "decrement")
          => IF call'.arg = 0
             THEN result' = "Ok" /\ CounterValue' = Some(0)
             ELSE result' = "CounterValueBelowZero"
                  /\ CounterValue' = None]_vars

C13_Witness ==
    /\ Len(events) = 2
    /\ events[1] = CounterIncremented(1, "alice", 1)
    /\ events[2] = CounterDecremented(0, "bob", 1)
    /\ CounterValue = Some(0)
(* The number of CounterIncremented and CounterDecremented events         *)
(* deposited so far with who = a.                                          *)
EventsBy(a) ==
    Cardinality({i \in 1..Len(events) :
                   /\ events[i].kind \in {"CounterIncremented",
                                          "CounterDecremented"}
                   /\ events[i].who = Some(a)})

(* C14: for every account, its interaction count (0 when absent) equals   *)
(* the number of increment and decrement events it has caused, and its    *)
(* entry is absent exactly when that number is 0.                          *)
C14_InteractionsCountEvents ==
    \A a \in AccountId :
        /\ unwrap_or(UserInteractions[a], 0) = EventsBy(a)
        /\ UserInteractions[a] = None <=> EventsBy(a) = 0

C14_Witness ==
    /\ UserInteractions["alice"] = Some(1) /\ EventsBy("alice") = 1
    /\ UserInteractions["bob"] = Some(1) /\ EventsBy("bob") = 1
    /\ events[1].kind = "CounterDecremented"
    /\ events[2].kind = "CounterIncremented"
    /\ result = "CounterValueExceedsMax"
(* C15: CounterValue is absent exactly when no event has been deposited,  *)
(* and otherwise equals the counter_value of the latest event.             *)
C15_CounterValueIsLastEvent ==
    /\ CounterValue = None <=> events = <<>>
    /\ events # <<>> => CounterValue = Some(LastEvent.counter_value)

C15_Witness ==
    /\ Len(events) = 2
    /\ events[1].counter_value # events[2].counter_value
    /\ events[2].kind = "CounterIncremented"
    /\ CounterValue = Some(events[2].counter_value)
    /\ result = "CounterOverflow"
(* C16: an increment or decrement by account A, successful or not, leaves *)
(* the interaction entry of every other account unchanged.                *)
C16_OtherAccountsUntouched ==
    [][(call'.op \in {"increment", "decrement"} /\ IsSigned)
       => \A b \in AccountId \ {caller} :
              UserInteractions'[b] = UserInteractions[b]]_vars

C16_Witness ==
    /\ call.op = "decrement" /\ call.origin = Signed("bob") /\ result = "Ok"
    /\ UserInteractions["bob"] = Some(1)
    /\ UserInteractions["alice"] = Some(1)
    /\ events[1].who = Some("alice")

(* C17: an increment or decrement of amount 0 by a signed account whose   *)
(* interaction count is below u32::MAX succeeds in every reachable state: *)
(* it stores the counter's current value (0 when it was absent), raises   *)
(* the caller's interaction count by 1 and deposits its event with        *)
(* amount 0.                                                               *)
C17_ZeroAmountSucceeds ==
    [][(/\ call'.op \in {"increment", "decrement"} /\ IsSigned
        /\ call'.arg = 0
        /\ interactions_of(caller) < U32Max)
       => /\ result' = "Ok"
          /\ CounterValue' = Some(current)
          /\ UserInteractions'[caller] = Some(interactions_of(caller) + 1)
          /\ events' = Append(events,
               IF call'.op = "increment"
               THEN CounterIncremented(current, caller, 0)
               ELSE CounterDecremented(current, caller, 0))]_vars

C17_Witness ==
    /\ call.op = "decrement" /\ call.arg = 0 /\ result = "Ok"
    /\ events = <<CounterDecremented(0, call.origin.who, 0)>>
    /\ CounterValue = Some(0)
    /\ UserInteractions[call.origin.who] = Some(1)
====
